---- MODULE Spec2Model ----
(***************************************************************************)
(* jiratrack: the interactive session controller (src/main.rs, App) with   *)
(* the worklog client it drives (src/jira.rs, Jira::log_time) and the      *)
(* state file it keeps (~/.local/share/jiratrack/state.json).              *)
(*                                                                         *)
(* One process run is: Launch (fetch the sprint's issues, load_state),     *)
(* then the loop of App::run: Draw, one key event, Draw, ... until Esc or  *)
(* a panic. Restart starts a new process over the same state file.         *)
(*                                                                         *)
(* Time is in milliseconds. Assumed of the environment: the state file's   *)
(* directory is writable (persist_state's unwraps do not fire) and the     *)
(* terminal can be drawn and read.                                         *)
(***************************************************************************)
EXTENDS Integers, Sequences, FiniteSets, TLC

VARIABLES
    pc,               \* where the process is: start, draw, event, exited, panicked, failed, killed
    issues,           \* App.issues
    search_input,     \* App.search_input, a sequence of characters
    filtered_issues,  \* App.filtered_issues
    selected,         \* App.table_state.selected(), an Option<usize>
    active_issue,     \* App.active_issue, an Option<String>
    activated_on,     \* App.activated_on, an Option<Zoned>
    disk,             \* the content of state.json
    clock,            \* what Zoned::now() returns
    posts,            \* history: every worklog POST sent to the tracker
    restarts,         \* history: number of process restarts
    lastCmd,          \* history: the key event handled since the last frame
    pre,              \* history: the state that key event was handled in
    lastCalls,        \* history: the log_time calls that key event made
    copied            \* history: what that key event put on the clipboard

vars == <<pc, issues, search_input, filtered_issues, selected, active_issue,
          activated_on, disk, clock, posts, restarts, lastCmd, pre, lastCalls,
          copied>>

----------------------------------------------------------------------------
(* Bounds of the model *)

MaxMinutes == 2

MaxRestarts == 1

MaxQuery == 1

MaxIssues == 3

MaxSelected == 2

(* Program constants *)

MinWorklogSeconds == 60

UsizeMax == 2147483647

MaxTime == MaxMinutes * 60000

\* The clock advances by 59 s, 59.5 s or 60 s at a time.
Steps == {59000, 59500, 60000}

Chars == {"a", "b"}

----------------------------------------------------------------------------
(* Option<T> *)

None == <<>>

Some(x) == <<x>>

IsSome(o) == o # <<>>

Unwrap(o) == o[1]

----------------------------------------------------------------------------
(* The tracker's issues *)

IssueA == [key |-> "A", summary |-> <<"a", "b">>]

IssueB == [key |-> "B", summary |-> <<"b">>]

\* What get_current_sprint_issues may answer at a launch.
IssueLists == {<<IssueA, IssueB>>, <<IssueB>>}

----------------------------------------------------------------------------
(* The state file: absent, unparsable, or a JSON object of PersistedState *)

NoFile == [kind |-> "nofile"]

Torn == [kind |-> "unparsable"]

JNull == [t |-> "null"]

JStr(v) == [t |-> "string", v |-> v]

\* A text of a Zoned that keeps whole seconds only.
FormatZonedSeconds(z) == <<z \div 1000, 0>>

\* A Zoned as its text: whole seconds and the fraction of the second.
FormatZoned(z) == <<z \div 1000, z % 1000>>

ParseZoned(s) == s[1] * 1000 + s[2]

get_persisted_state(ai, ao) == [active_issue |-> ai, activated_on |-> ao]

Serialize(state) ==
    [kind |-> "json",
     active_issue |-> IF IsSome(state.active_issue)
                      THEN JStr(Unwrap(state.active_issue)) ELSE JNull,
     activated_on |-> IF IsSome(state.activated_on)
                      THEN JStr(FormatZoned(Unwrap(state.activated_on))) ELSE JNull]

Deserialize(file) ==
    IF file.kind # "json"
    THEN [ok |-> FALSE, value |-> get_persisted_state(None, None)]
    ELSE [ok |-> TRUE,
          value |-> get_persisted_state(
              IF file.active_issue = JNull THEN None ELSE Some(file.active_issue.v),
              IF file.activated_on = JNull THEN None
              ELSE Some(ParseZoned(file.activated_on.v)))]

----------------------------------------------------------------------------
(* SearchIndex: fuzzy_match and App::search_issues *)

RECURSIVE IsSubsequence(_, _)
IsSubsequence(pattern, choice) ==
    IF pattern = <<>> THEN TRUE
    ELSE IF choice = <<>> THEN FALSE
    ELSE IF Head(pattern) = Head(choice)
         THEN IsSubsequence(Tail(pattern), Tail(choice))
         ELSE IsSubsequence(pattern, Tail(choice))

\* floor(ln(n)) for the line lengths of the model.
LnFloor(n) == IF n < 3 THEN 0 ELSE IF n < 8 THEN 1 ELSE 2

\* fuzzy_matcher::clangd::fuzzy_match(choice, pattern): None when the pattern
\* is no subsequence of the choice, else a score: a bonus for each matched
\* character, a penalty for each skipped one, and the line-length adjustment.
fuzzy_match(choice, pattern) ==
    IF ~IsSubsequence(pattern, choice) THEN None
    ELSE Some(10 * Len(pattern) - (Len(choice) - Len(pattern))
              - LnFloor(Len(choice) + 1))

\* An insertion that puts an entry before the entries of equal sort key.
RECURSIVE InsertByKeyUnstable(_, _)
InsertByKeyUnstable(sorted, e) ==
    IF sorted = <<>> THEN <<e>>
    ELSE IF (0 - Head(sorted).score) < (0 - e.score)
         THEN <<Head(sorted)>> \o InsertByKeyUnstable(Tail(sorted), e)
         ELSE <<e>> \o sorted

\* Insert a scored entry after every entry whose sort key is not greater.
RECURSIVE InsertByKey(_, _)
InsertByKey(sorted, e) ==
    IF sorted = <<>> THEN <<e>>
    ELSE IF (0 - Head(sorted).score) <= (0 - e.score)
         THEN <<Head(sorted)>> \o InsertByKey(Tail(sorted), e)
         ELSE <<e>> \o sorted

\* Vec::sort_by_key(|(_, score)| -*score): a stable sort.
RECURSIVE SortByKey(_)
SortByKey(scored) ==
    IF scored = <<>> THEN <<>>
    ELSE InsertByKey(SortByKey(SubSeq(scored, 1, Len(scored) - 1)),
                     scored[Len(scored)])

RECURSIVE FilterMap(_, _)
FilterMap(list, query) ==
    IF list = <<>> THEN <<>>
    ELSE LET m == fuzzy_match(Head(list).summary, query) IN
         (IF IsSome(m) THEN <<[issue |-> Head(list), score |-> Unwrap(m)]>>
          ELSE <<>>) \o FilterMap(Tail(list), query)

search_issues(list, query) ==
    LET sorted == SortByKey(FilterMap(list, query)) IN
    [i \in 1..Len(sorted) |-> sorted[i].issue]

----------------------------------------------------------------------------
(* IssueTrackerClient: Jira::log_time and Jira::post_request *)

\* (ended_on - started_on).total(Unit::Second).floor()
TotalSecondsFloor(started_on, ended_on) == (ended_on - started_on) \div 1000

\* `as u32` of a float: saturating at 0.
AsU32(x) == IF x < 0 THEN 0 ELSE x

\* post_request: the response, or a panic on a status error or a transport error.
post_request(netOk) == IF netOk THEN "ok" ELSE "panic"

\* A log_time that takes exactly one minute for less than a minute.
log_time_off_by_one(issue_key, started_on, ended_on, netOk) ==
    LET time_spent_s == AsU32(TotalSecondsFloor(started_on, ended_on)) IN
    IF time_spent_s <= MinWorklogSeconds
    THEN [result |-> "ok", posts |-> <<>>]
    ELSE [result |-> post_request(netOk),
          posts |-> <<[key |-> issue_key, started |-> started_on,
                       timeSpentSeconds |-> time_spent_s, ok |-> netOk]>>]

\* log_time on a tracker that answers netOk: whether the call returned, and
\* the POSTs it sent.
log_time(issue_key, started_on, ended_on, netOk) ==
    LET time_spent_s == AsU32(TotalSecondsFloor(started_on, ended_on)) IN
    IF time_spent_s < MinWorklogSeconds
    THEN [result |-> "ok", posts |-> <<>>]
    ELSE [result |-> post_request(netOk),
          posts |-> <<[key |-> issue_key, started |-> started_on,
                       timeSpentSeconds |-> time_spent_s, ok |-> netOk]>>]

----------------------------------------------------------------------------
(* The process: construction, startup, restart *)

NoSnapshot ==
    [active_issue |-> None, activated_on |-> None, target |-> None,
     nposts |-> 0, run |-> 0, query |-> <<>>]

\* App::new(), before any state file is read; the first run finds no file.
Init ==
    /\ pc = "start"
    /\ issues = <<>>
    /\ search_input = <<>>
    /\ filtered_issues = <<>>
    /\ selected = Some(0)
    /\ active_issue = None
    /\ activated_on = None
    /\ disk = NoFile
    /\ clock = 0
    /\ posts = <<>>
    /\ restarts = 0
    /\ lastCmd = "none"
    /\ pre = NoSnapshot
    /\ lastCalls = <<>>
    /\ copied = None

history == <<lastCmd, pre, lastCalls, copied>>

\* load_state, the last step of startup: no file leaves the empty default, an
\* unparsable file panics ("Invalid state"), any parsed record is installed.
load_state ==
    IF disk = NoFile
    THEN /\ pc' = "draw"
         /\ UNCHANGED <<active_issue, activated_on>>
    ELSE LET data == Deserialize(disk) IN
         IF ~data.ok
         THEN /\ pc' = "panicked"
              /\ UNCHANGED <<active_issue, activated_on>>
         ELSE /\ pc' = "draw"
              /\ active_issue' = data.value.active_issue
              /\ activated_on' = data.value.activated_on

\* A startup that writes the empty default over the state file when the
\* issue fetch fails.
LaunchResetsOnFailure ==
    /\ pc = "start"
    /\ \/ /\ pc' = "failed"
          /\ disk' = Serialize(get_persisted_state(None, None))
          /\ UNCHANGED <<issues, active_issue, activated_on>>
       \/ \E list \in IssueLists :
            /\ issues' = list
            /\ load_state
            /\ UNCHANGED disk
    /\ UNCHANGED <<search_input, filtered_issues, selected, clock, posts,
                   restarts, history>>

\* App::run up to the loop: the issue fetch fails and run returns the error,
\* or it answers a list and load_state runs.
Launch ==
    /\ pc = "start"
    /\ \/ /\ pc' = "failed"
          /\ UNCHANGED <<issues, active_issue, activated_on>>
       \/ \E list \in IssueLists :
            /\ issues' = list
            /\ load_state
    /\ UNCHANGED <<search_input, filtered_issues, selected, disk, clock,
                   posts, restarts, history>>

\* The user starts the tool again: a new App::new() over the same state file.
Restart ==
    /\ pc \in {"exited", "panicked", "failed", "killed"}
    /\ restarts < MaxRestarts
    /\ restarts' = restarts + 1
    /\ pc' = "start"
    /\ issues' = <<>>
    /\ search_input' = <<>>
    /\ filtered_issues' = <<>>
    /\ selected' = Some(0)
    /\ active_issue' = None
    /\ activated_on' = None
    /\ UNCHANGED <<disk, clock, posts, history>>

\* Wall-clock time passes. No step but a key event's reads the clock, so time
\* is let pass where the process waits for a key.
Tick ==
    /\ pc = "event"
    /\ \E d \in Steps :
         /\ clock + d <= MaxTime
         /\ clock' = clock + d
    /\ UNCHANGED <<pc, issues, search_input, filtered_issues, selected,
                   active_issue, activated_on, disk, posts, restarts,
                   history>>

----------------------------------------------------------------------------
(* App::draw *)

\* Table's stateful render: a selection past the last row moves to the last
\* row, and a table with no rows has no selection.
ClampSelection(sel, nrows) ==
    IF nrows = 0 THEN None
    ELSE IF IsSome(sel) /\ Unwrap(sel) >= nrows THEN Some(nrows - 1)
    ELSE sel

\* A draw that also saves the state.
DrawPersists ==
    /\ pc = "draw"
    /\ pc' = "event"
    /\ filtered_issues' = search_issues(issues, search_input)
    /\ selected' = ClampSelection(selected, Len(filtered_issues'))
    /\ disk' = Serialize(get_persisted_state(active_issue, activated_on))
    /\ lastCmd' = "none"
    /\ pre' = NoSnapshot
    /\ lastCalls' = <<>>
    /\ copied' = None
    /\ UNCHANGED <<issues, search_input, active_issue, activated_on,
                   clock, posts, restarts>>

Draw ==
    /\ pc = "draw"
    /\ pc' = "event"
    /\ filtered_issues' = search_issues(issues, search_input)
    /\ selected' = ClampSelection(selected, Len(filtered_issues'))
    /\ lastCmd' = "none"
    /\ pre' = NoSnapshot
    /\ lastCalls' = <<>>
    /\ copied' = None
    /\ UNCHANGED <<issues, search_input, active_issue, activated_on, disk,
                   clock, posts, restarts>>

----------------------------------------------------------------------------
(* App::handle_key_event and the commands *)

\* The issue key the highlighted row resolves to, if it resolves.
Target ==
    IF IsSome(selected) /\ Unwrap(selected) < Len(filtered_issues)
    THEN Some(filtered_issues[Unwrap(selected) + 1].key)
    ELSE None

Snapshot ==
    [active_issue |-> active_issue, activated_on |-> activated_on,
     target |-> Target, nposts |-> Len(posts), run |-> restarts,
     query |-> search_input]

Handled(cmd, calls) ==
    /\ lastCmd' = cmd
    /\ pre' = Snapshot
    /\ lastCalls' = calls
    /\ copied' = None

\* A persist_state that writes nothing.
persist_state_skipped(ai, ao) == UNCHANGED disk

\* persist_state of the state about to be in memory: File::create, to_writer.
persist_state(ai, ao) == disk' = Serialize(get_persisted_state(ai, ao))

\* A clear_state that forgets to clear the timestamp.
clear_state_keeps_timestamp ==
    /\ active_issue' = None
    /\ UNCHANGED activated_on
    /\ persist_state(None, activated_on)

clear_state ==
    /\ active_issue' = None
    /\ activated_on' = None
    /\ persist_state(None, None)

\* deactivate_issue up to clear_state: the log_time call it makes when both
\* fields are set, at the instant now, on a tracker that answers netOk.
deactivate_calls(now, netOk) ==
    IF IsSome(active_issue) /\ IsSome(activated_on)
    THEN LET r == log_time(Unwrap(active_issue), Unwrap(activated_on), now, netOk) IN
         [panicked |-> r.result = "panic",
          posts |-> r.posts,
          calls |-> <<[key |-> Unwrap(active_issue),
                       started_on |-> Unwrap(activated_on),
                       ended_on |-> now,
                       posted |-> r.posts # <<>>,
                       ok |-> r.result = "ok"]>>]
    ELSE [panicked |-> FALSE, posts |-> <<>>, calls |-> <<>>]

\* Ctrl-s: deactivate_issue. The unwrap of log_time's result panics before
\* clear_state when the POST failed.
SubmitWorklog ==
    /\ pc = "event"
    /\ \E netOk \in BOOLEAN :
         LET d == deactivate_calls(clock, netOk) IN
         /\ Handled("submit", d.calls)
         /\ posts' = posts \o d.posts
         /\ IF d.panicked
            THEN /\ pc' = "panicked"
                 /\ UNCHANGED <<active_issue, activated_on, disk>>
            ELSE /\ pc' = "draw"
                 /\ clear_state
    /\ UNCHANGED <<issues, search_input, filtered_issues, selected, clock,
                   restarts>>

\* A Ctrl-d bound to deactivate_issue instead of clear_state.
DiscardSubmits ==
    /\ pc = "event"
    /\ \E netOk \in BOOLEAN :
         LET d == deactivate_calls(clock, netOk) IN
         /\ Handled("discard", d.calls)
         /\ posts' = posts \o d.posts
         /\ IF d.panicked
            THEN /\ pc' = "panicked"
                 /\ UNCHANGED <<active_issue, activated_on, disk>>
            ELSE /\ pc' = "draw"
                 /\ clear_state
    /\ UNCHANGED <<issues, search_input, filtered_issues, selected, clock,
                   restarts>>

\* Ctrl-d: clear_state.
DiscardActive ==
    /\ pc = "event"
    /\ Handled("discard", <<>>)
    /\ pc' = "draw"
    /\ clear_state
    /\ UNCHANGED <<issues, search_input, filtered_issues, selected, clock,
                   posts, restarts>>

\* An activate_issue that overwrites the active issue without deactivating it.
ActivateWithoutFlush ==
    /\ pc = "event"
    /\ Handled("activate", <<>>)
    /\ IF selected = None
       THEN /\ pc' = "draw"
            /\ UNCHANGED <<active_issue, activated_on, disk>>
       ELSE IF Unwrap(selected) >= Len(filtered_issues)
       THEN /\ pc' = "panicked"
            /\ UNCHANGED <<active_issue, activated_on, disk>>
       ELSE /\ pc' = "draw"
            /\ active_issue' = Some(filtered_issues[Unwrap(selected) + 1].key)
            /\ activated_on' = Some(clock)
            /\ persist_state(active_issue', activated_on')
    /\ UNCHANGED <<issues, search_input, filtered_issues, selected, clock,
                   posts, restarts>>

\* Enter: activate_issue. deactivate_issue first (it may panic in log_time);
\* then no highlighted row returns, a row that is not in the view panics in
\* the unwrap, and a row of the view becomes the active issue, is stamped
\* and persisted.
ActivateSelected ==
    /\ pc = "event"
    /\ \E netOk \in BOOLEAN :
         LET d == deactivate_calls(clock, netOk) IN
         /\ Handled("activate", d.calls)
         /\ posts' = posts \o d.posts
         /\ IF d.panicked
            THEN /\ pc' = "panicked"
                 /\ UNCHANGED <<active_issue, activated_on, disk>>
            ELSE IF selected = None
            THEN /\ pc' = "draw"
                 /\ clear_state
            ELSE IF Unwrap(selected) >= Len(filtered_issues)
            THEN /\ pc' = "panicked"
                 /\ clear_state
            ELSE /\ pc' = "draw"
                 /\ active_issue' = Some(filtered_issues[Unwrap(selected) + 1].key)
                 /\ activated_on' = Some(clock)
                 /\ persist_state(active_issue', activated_on')
    /\ UNCHANGED <<issues, search_input, filtered_issues, selected, clock,
                   restarts>>

\* get_active_issue: the cached issue with the active key, if any.
get_active_issue ==
    IF active_issue = None THEN None
    ELSE LET found == {i \in 1..Len(issues) : issues[i].key = Unwrap(active_issue)} IN
         IF found = {} THEN None
         ELSE Some(issues[CHOOSE i \in found : \A j \in found : i <= j])

\* Ctrl-y: copy_mr_title. With an active issue found in the cache, "[key] summary"
\* goes to the clipboard, or the clipboard's unwrap panics.
CopyActiveSummary ==
    /\ pc = "event"
    /\ lastCmd' = "copy"
    /\ pre' = Snapshot
    /\ lastCalls' = <<>>
    /\ IF IsSome(get_active_issue)
       THEN \E clipOk \in BOOLEAN :
              IF clipOk
              THEN /\ pc' = "draw"
                   /\ copied' = Some(<<Unwrap(get_active_issue).key,
                                       Unwrap(get_active_issue).summary>>)
              ELSE /\ pc' = "panicked"
                   /\ copied' = None
       ELSE /\ pc' = "draw"
            /\ copied' = None
    /\ UNCHANGED <<issues, search_input, filtered_issues, selected,
                   active_issue, activated_on, disk, clock, posts, restarts>>

\* TableState::select_next / select_previous.
select_next(sel) ==
    IF sel = None THEN Some(0)
    ELSE IF Unwrap(sel) >= UsizeMax THEN sel ELSE Some(Unwrap(sel) + 1)

select_previous(sel) ==
    IF sel = None THEN Some(UsizeMax)
    ELSE IF Unwrap(sel) = 0 THEN sel ELSE Some(Unwrap(sel) - 1)

\* Down / Up. The rows the selection moves over are bounded in the model.
MoveSelection ==
    /\ pc = "event"
    /\ \E down \in BOOLEAN :
         /\ Handled(IF down THEN "down" ELSE "up", <<>>)
         /\ selected' = IF down THEN select_next(selected)
                        ELSE select_previous(selected)
         /\ Unwrap(selected') <= MaxSelected \/ selected' = Some(UsizeMax)
    /\ pc' = "draw"
    /\ UNCHANGED <<issues, search_input, filtered_issues, active_issue,
                   activated_on, disk, clock, posts, restarts>>

\* A character key: add_char. The query's length is bounded in the model.
AppendChar ==
    /\ pc = "event"
    /\ Len(search_input) < MaxQuery
    /\ \E c \in Chars : search_input' = Append(search_input, c)
    /\ Handled("char", <<>>)
    /\ pc' = "draw"
    /\ UNCHANGED <<issues, filtered_issues, selected, active_issue,
                   activated_on, disk, clock, posts, restarts>>

\* delete_char: the query without its last character, if it has one.
delete_char(input) ==
    IF input = <<>> THEN <<>> ELSE SubSeq(input, 1, Len(input) - 1)

Backspace ==
    /\ pc = "event"
    /\ search_input' = delete_char(search_input)
    /\ Handled("backspace", <<>>)
    /\ pc' = "draw"
    /\ UNCHANGED <<issues, filtered_issues, selected, active_issue,
                   activated_on, disk, clock, posts, restarts>>

\* An exit that deactivates the active issue on the way out.
QuitDeactivates ==
    /\ pc = "event"
    /\ \E netOk \in BOOLEAN :
         LET d == deactivate_calls(clock, netOk) IN
         /\ Handled("quit", d.calls)
         /\ posts' = posts \o d.posts
         /\ IF d.panicked
            THEN /\ pc' = "panicked"
                 /\ UNCHANGED <<active_issue, activated_on, disk>>
            ELSE /\ pc' = "exited"
                 /\ clear_state
    /\ UNCHANGED <<issues, search_input, filtered_issues, selected, clock,
                   restarts>>

\* Esc: exit. The loop of App::run ends and run returns Ok.
Quit ==
    /\ pc = "event"
    /\ Handled("quit", <<>>)
    /\ pc' = "exited"
    /\ UNCHANGED <<issues, search_input, filtered_issues, selected,
                   active_issue, activated_on, disk, clock, posts, restarts>>

\* Any other event: an unbound key, a key release, a resize.
OtherEvent ==
    /\ pc = "event"
    /\ pc' = "draw"
    /\ UNCHANGED <<issues, search_input, filtered_issues, selected,
                   active_issue, activated_on, disk, clock, posts, restarts,
                   history>>

----------------------------------------------------------------------------
(* Specifications *)

Next ==
    \/ Launch
    \/ Restart
    \/ Tick
    \/ Draw
    \/ SubmitWorklog
    \/ DiscardActive
    \/ ActivateSelected
    \/ CopyActiveSummary
    \/ MoveSelection
    \/ AppendChar
    \/ Backspace
    \/ Quit
    \/ OtherEvent

\* The tool's runs from its first one: the state file is only what
\* persist_state wrote.
Spec == Init /\ [][Next]_vars

\* A state file of any content: written by hand, or by another version.
StateFiles ==
    {NoFile, Torn}
    \cup [kind : {"json"},
          active_issue : {JNull, JStr("A")},
          activated_on : {JNull, JStr(FormatZoned(0))}]

InitAnyFile ==
    /\ pc = "start"
    /\ issues = <<>>
    /\ search_input = <<>>
    /\ filtered_issues = <<>>
    /\ selected = Some(0)
    /\ active_issue = None
    /\ activated_on = None
    /\ disk \in StateFiles
    /\ clock = 0
    /\ posts = <<>>
    /\ restarts = 0
    /\ lastCmd = "none"
    /\ pre = NoSnapshot
    /\ lastCalls = <<>>
    /\ copied = None

\* The tool's runs over a state file it did not write itself.
SpecAnyFile == InitAnyFile /\ [][Next]_vars

----------------------------------------------------------------------------
(* Properties *)

\* One minute, in the clock's milliseconds.
OneMinute == 60 * 1000

Idle == active_issue = None /\ activated_on = None

DiskIdle == disk = [kind |-> "json", active_issue |-> JNull, activated_on |-> JNull]

\* The process is where its handler of the key event cmd left it.
JustHandled(cmd) == lastCmd = cmd /\ pre.run = restarts

\* The session the last key event was handled in was Active.
WasActive == IsSome(pre.active_issue) /\ IsSome(pre.activated_on)

\* How long that session had been active when the key was handled. No time
\* passes between a key event and the next frame.
ElapsedPre == clock - Unwrap(pre.activated_on)

FailedCall == \E i \in DOMAIN lastCalls : ~lastCalls[i].ok

\* C1: in every reachable state the activation timestamp is present in memory
\* iff the active issue key is, and the record in the state file has its
\* timestamp set iff it has its key set.
C1_CoOptionality ==
    /\ IsSome(activated_on) <=> IsSome(active_issue)
    /\ disk.kind = "json" =>
         ((disk.activated_on # JNull) <=> (disk.active_issue # JNull))

\* C1 witness: a second run of the tool has loaded an active timer.
C1_Witness ==
    /\ restarts > 0
    /\ pc = "event"
    /\ IsSome(active_issue) /\ IsSome(activated_on)
    /\ disk.kind = "json" /\ disk.active_issue # JNull

\* C2: Enter on a row of the view while issue A has been active for a minute or
\* more makes exactly one log_time call, for A from A's activation instant,
\* and it sends one worklog POST; the highlighted issue becomes active (stamped
\* now, and persisted) only once that submission has succeeded, as after a
\* deactivation followed by an activation, and when the submission has failed
\* A's timer is still in memory and in the state file.
C2_ActivateFlushesPrevious ==
    (JustHandled("activate") /\ WasActive /\ IsSome(pre.target)
       /\ ElapsedPre >= OneMinute) =>
        /\ Len(lastCalls) = 1
        /\ lastCalls[1].key = Unwrap(pre.active_issue)
        /\ lastCalls[1].started_on = Unwrap(pre.activated_on)
        /\ lastCalls[1].posted
        /\ Len(posts) = pre.nposts + 1
        /\ posts[Len(posts)].key = Unwrap(pre.active_issue)
        /\ posts[Len(posts)].started = Unwrap(pre.activated_on)
        /\ IF lastCalls[1].ok
           THEN /\ active_issue = pre.target
                /\ activated_on = Some(clock)
                /\ Deserialize(disk).value = get_persisted_state(pre.target, Some(clock))
           ELSE /\ active_issue = pre.active_issue
                /\ activated_on = pre.activated_on
                /\ Deserialize(disk).value =
                     get_persisted_state(pre.active_issue, pre.activated_on)

\* C2 witness: B was activated while A had been active for a minute, and A's
\* worklog went out.
C2_Witness ==
    /\ JustHandled("activate") /\ WasActive /\ ElapsedPre >= OneMinute
    /\ pre.active_issue = Some("A") /\ pre.target = Some("B")
    /\ active_issue = Some("B")
    /\ Len(posts) = pre.nposts + 1 /\ posts[Len(posts)].key = "A"

\* C3: a log_time call sends a worklog POST iff its interval is 60 seconds or
\* more, and a deactivation (Ctrl-s, or Enter) of an active issue makes one
\* such call: after 59 s or 59.5 s no POST, after 60 s one POST.
C3_SixtySecondThreshold ==
    /\ \A i \in DOMAIN lastCalls :
         lastCalls[i].posted <=>
             (lastCalls[i].ended_on - lastCalls[i].started_on >= OneMinute)
    /\ ((JustHandled("submit") \/ JustHandled("activate")) /\ WasActive) =>
         /\ Len(lastCalls) = 1
         /\ lastCalls[1].ended_on = clock
         /\ lastCalls[1].started_on = Unwrap(pre.activated_on)
         /\ Len(posts) = pre.nposts + (IF ElapsedPre >= OneMinute THEN 1 ELSE 0)

\* C3 witness: a deactivation after exactly 59 s that sent nothing, in a run
\* where a deactivation after exactly 60 s has sent a worklog of 60 seconds.
C3_Witness ==
    /\ JustHandled("submit") /\ WasActive
    /\ ElapsedPre = 59000
    /\ Len(posts) = pre.nposts
    /\ \E i \in DOMAIN posts : posts[i].timeSpentSeconds = 60

\* C4: Ctrl-s on an issue active for a minute or more makes exactly one
\* log_time call, with the active key, its activation instant and now, and
\* the session is Idle afterwards.
C4_SubmitWorklogOnceThenIdle ==
    (JustHandled("submit") /\ WasActive /\ ElapsedPre >= OneMinute) =>
        /\ lastCalls = <<[key |-> Unwrap(pre.active_issue),
                          started_on |-> Unwrap(pre.activated_on),
                          ended_on |-> clock,
                          posted |-> TRUE,
                          ok |-> lastCalls[1].ok]>>
        /\ Len(posts) = pre.nposts + 1
        /\ Idle

\* C5: Ctrl-d, in any state and after any elapsed time, makes no log_time
\* call, sends no POST, and leaves the session Idle in memory and in the
\* state file; the loop goes on.
C5_DiscardSubmitsNothing ==
    JustHandled("discard") =>
        /\ lastCalls = <<>>
        /\ Len(posts) = pre.nposts
        /\ Idle
        /\ DiskIdle
        /\ pc = "draw"

\* C5 witness: an issue active for more than a minute was discarded.
C5_Witness ==
    /\ JustHandled("discard") /\ WasActive /\ ElapsedPre >= OneMinute
    /\ Idle /\ DiskIdle

\* C6: after a deactivation (Ctrl-s, or Enter) whose log_time call failed, the
\* session is Idle in memory and in the state file.
C6_IdleAfterFailedSubmission ==
    ((JustHandled("submit") \/ JustHandled("activate")) /\ FailedCall) =>
        /\ Idle
        /\ DiskIdle

\* C7: after a key event whose log_time call failed, the control loop is
\* still running: the process goes on to draw the next frame.
C7_LoopSurvivesFailedSubmission ==
    (pre.run = restarts /\ FailedCall) => pc = "draw"

\* C8: Esc on an active issue makes no log_time call and sends no POST, and
\* the state file holds the issue's key and activation instant from then on;
\* a later run of the tool that reaches its loop has that key and that
\* instant as its session.
C8_QuitKeepsActiveTimer ==
    (lastCmd = "quit" /\ WasActive) =>
        /\ lastCalls = <<>>
        /\ Len(posts) = pre.nposts
        /\ disk = Serialize(get_persisted_state(pre.active_issue, pre.activated_on))
        /\ pre.run = restarts => pc = "exited"
        /\ pc = "draw" =>
             /\ active_issue = pre.active_issue
             /\ activated_on = pre.activated_on

\* C8 witness: the tool was quit on an issue activated at 59.5 s, and the next
\* run has restored it.
C8_Witness ==
    /\ lastCmd = "quit" /\ WasActive
    /\ restarts > pre.run
    /\ pc = "draw"
    /\ active_issue = pre.active_issue
    /\ activated_on = Some(59500)

\* C9: writing the session state to the state file and reading it back gives
\* the session state, for the Idle state and for every Active state.
C9_SaveLoadRoundTrip ==
    LET state == get_persisted_state(active_issue, activated_on) IN
    /\ Deserialize(Serialize(state)).ok
    /\ Deserialize(Serialize(state)).value = state

\* C9 witness: an Active state whose instant is not a whole second, on disk
\* as persist_state wrote it.
C9_Witness ==
    /\ IsSome(active_issue)
    /\ activated_on = Some(59500)
    /\ disk = Serialize(get_persisted_state(active_issue, activated_on))
    /\ pc = "event"

\* A record with one of its two fields null.
HalfRecord(file) ==
    /\ file.kind = "json"
    /\ (file.active_issue = JNull) # (file.activated_on = JNull)

\* C10: over a state file whose record has the key set and the timestamp
\* null, or the reverse, startup fails: the process never reaches its loop,
\* and no session with one field set is ever installed.
C10_CorruptRecordRejected ==
    /\ HalfRecord(disk) => pc \notin {"draw", "event"}
    /\ IsSome(active_issue) <=> IsSome(activated_on)

----------------------------------------------------------------------------
(* persist_state, step by step *)

\* The process dies (is killed, loses power) inside the persist_state of
\* clear_state, after File::create has truncated state.json and before
\* to_writer has written the whole record: Ctrl-d, or Ctrl-s or Enter after a
\* log_time call that returned.
KilledInPersist ==
    /\ pc = "event"
    /\ \E cmd \in {"discard", "submit", "activate"} :
         LET d == IF cmd = "discard"
                  THEN [panicked |-> FALSE, posts |-> <<>>, calls |-> <<>>]
                  ELSE deactivate_calls(clock, TRUE) IN
         /\ Handled(cmd, d.calls)
         /\ posts' = posts \o d.posts
    /\ pc' = "killed"
    /\ active_issue' = None
    /\ activated_on' = None
    /\ disk' = Torn
    /\ UNCHANGED <<issues, search_input, filtered_issues, selected, clock,
                   restarts>>

NextCrash == Next \/ KilledInPersist

\* The tool's runs when the process may die while it writes the state file.
SpecCrash == Init /\ [][NextCrash]_vars

\* C11: after the process died during a save, the state file holds the whole
\* record it held before the save (or is absent as before), or the whole new
\* record.
C11_SaveIsCrashAtomic ==
    pc = "killed" =>
        \/ disk = NoFile
        \/ disk = Serialize(get_persisted_state(pre.active_issue, pre.activated_on))
        \/ disk = Serialize(get_persisted_state(None, None))

\* C12: a startup that fails (the issue fetch fails, or the state file does
\* not parse) leaves the state file as it found it.
C12_FailedStartupKeepsRecord ==
    [][(pc = "start" /\ pc' \in {"failed", "panicked"}) => disk' = disk]_vars

\* C12 witness: a later run failed at the issue fetch over a persisted active
\* timer, which is still in the state file.
C12_Witness ==
    /\ pc = "failed"
    /\ restarts > 0
    /\ disk.kind = "json"
    /\ disk.active_issue # JNull /\ disk.activated_on # JNull

\* C13: once Enter, Ctrl-s or Ctrl-d has been handled and the loop goes on to
\* the next frame and the next key, the state file holds a record, and the
\* record is the session state in memory.
C13_PersistedAfterEveryMutation ==
    ((JustHandled("activate") \/ JustHandled("submit") \/ JustHandled("discard"))
       /\ pc = "draw") =>
        /\ disk.kind = "json"
        /\ Deserialize(disk).value = get_persisted_state(active_issue, activated_on)

\* C13 witness: an issue has just been activated, and the state file holds it.
C13_Witness ==
    /\ JustHandled("activate") /\ pc = "draw"
    /\ IsSome(active_issue) /\ activated_on = Some(clock)
    /\ Deserialize(disk).value = get_persisted_state(active_issue, activated_on)

----------------------------------------------------------------------------
(* search_issues over any issue list and query *)

IssueC == [key |-> "C", summary |-> <<"b">>]

IssueD == [key |-> "D", summary |-> <<"b", "a">>]

IssuePool == {IssueA, IssueB, IssueC, IssueD}

\* The lists of at most MaxIssues distinct issues.
RankLists ==
    UNION {{l \in [1..n -> IssuePool] :
              \A i, j \in 1..n : i # j => l[i] # l[j]} : n \in 0..MaxIssues}

Queries == UNION {[1..n -> Chars] : n \in 0..MaxQuery}

\* A frame is about to be drawn over some issue list and some query.
InitRank ==
    /\ pc = "draw"
    /\ issues \in RankLists
    /\ search_input \in Queries
    /\ filtered_issues = <<>>
    /\ selected = Some(0)
    /\ active_issue = None
    /\ activated_on = None
    /\ disk = NoFile
    /\ clock = 0
    /\ posts = <<>>
    /\ restarts = 0
    /\ lastCmd = "none"
    /\ pre = NoSnapshot
    /\ lastCalls = <<>>
    /\ copied = None

\* The frame is drawn: search_issues computes the view.
SpecRank == InitRank /\ [][Draw]_vars

\* C14: with the empty query, the view is the issue list, in its order.
C14_EmptyQueryIsIdentity ==
    (pc = "event" /\ search_input = <<>>) => filtered_issues = issues

ScoreOf(issue) == fuzzy_match(issue.summary, search_input)

PositionOf(issue) == CHOOSE i \in DOMAIN issues : issues[i] = issue

\* C15: the view holds exactly the issues whose summary has a score for the
\* query, each once, by descending score, and issues of equal score are in
\* the order they have in the issue list.
C15_RankedViewIsFilteredStableSort ==
    pc = "event" =>
        /\ \A j \in DOMAIN filtered_issues :
             /\ \E i \in DOMAIN issues : issues[i] = filtered_issues[j]
             /\ IsSome(ScoreOf(filtered_issues[j]))
        /\ \A i \in DOMAIN issues :
             IsSome(ScoreOf(issues[i])) =>
                 \E j \in DOMAIN filtered_issues : filtered_issues[j] = issues[i]
        /\ \A j, k \in DOMAIN filtered_issues :
             j < k =>
                 /\ filtered_issues[j] # filtered_issues[k]
                 /\ Unwrap(ScoreOf(filtered_issues[j])) >= Unwrap(ScoreOf(filtered_issues[k]))
                 /\ Unwrap(ScoreOf(filtered_issues[j])) = Unwrap(ScoreOf(filtered_issues[k]))
                      => PositionOf(filtered_issues[j]) < PositionOf(filtered_issues[k])

\* C15 witness: a query that excludes one issue and scores two others
\* equally, which are in the view in their order of the list.
C15_Witness ==
    /\ pc = "event"
    /\ issues = <<IssueD, IssueB, IssueA>>
    /\ search_input = <<"a">>
    /\ ScoreOf(IssueD) = ScoreOf(IssueA)
    /\ ScoreOf(IssueB) = None
    /\ filtered_issues = <<IssueD, IssueA>>

----------------------------------------------------------------------------
(* App::draw on a terminal too small to show the table *)

\* The frame is drawn on a terminal whose table area, inside the border, is
\* empty: search_issues computes the view, and the table's render returns
\* before it looks at the selection.
DrawUnrendered ==
    /\ pc = "draw"
    /\ pc' = "event"
    /\ filtered_issues' = search_issues(issues, search_input)
    /\ lastCmd' = "none"
    /\ pre' = NoSnapshot
    /\ lastCalls' = <<>>
    /\ copied' = None
    /\ UNCHANGED <<issues, search_input, selected, active_issue, activated_on,
                   disk, clock, posts, restarts>>

NextAnyTerminal == Next \/ DrawUnrendered

\* The tool's runs on a terminal of any size, which may change between frames.
SpecAnyTerminal == Init /\ [][NextAnyTerminal]_vars

\* C16: when a key is handled the selection is none or a row of the current
\* view, and Enter never panics on a row that is not in the view.
C16_SelectionInRange ==
    /\ pc = "event" =>
         (selected = None \/ Unwrap(selected) < Len(filtered_issues))
    /\ ~(JustHandled("activate") /\ pc = "panicked" /\ ~FailedCall)

----------------------------------------------------------------------------
(* The view and the commands that only touch the interface *)

UiCommands == {"down", "up", "char", "backspace", "copy", "quit"}

\* C17: drawing a frame (which computes the view) and the commands
\* MoveSelection, AppendChar, Backspace, CopyActiveSummary and Quit leave the
\* active key, the activation timestamp and the state file as they were and
\* make no log_time call; Backspace on an empty query leaves it empty.
C17_ViewAndUiCommandsKeepSession ==
    [][((pc = "draw" /\ pc' = "event")
          \/ (pc = "event" /\ lastCmd' \in UiCommands))
       => /\ active_issue' = active_issue
          /\ activated_on' = activated_on
          /\ disk' = disk
          /\ posts' = posts
          /\ lastCalls' = <<>>
          /\ (lastCmd' = "backspace" /\ search_input = <<>>)
               => search_input' = <<>>]_vars

\* Backspace on an empty query while an issue is active.
C17_Witness ==
    /\ JustHandled("backspace")
    /\ pre.query = <<>>
    /\ search_input = <<>>
    /\ IsSome(active_issue)
    /\ IsSome(activated_on)
    /\ pre.active_issue = active_issue
    /\ disk = Serialize(get_persisted_state(active_issue, activated_on))

----------------------------------------------------------------------------
(* Submissions over the tool's runs *)

\* C18: once a log_time call for an activation (key, since) has failed, no
\* later call is made for the same key and activation instant.
C18_NoDoubleSubmission ==
    \A i \in 1..Len(posts) : \A j \in 1..Len(posts) :
        (i < j /\ ~posts[i].ok)
            => ~(posts[j].key = posts[i].key
                   /\ posts[j].started = posts[i].started)

----------------------------------------------------------------------------
(* The active issue shown *)

\* C19: while the interface runs, the view has an active issue to show iff the
\* session is Active, and Ctrl-y copies a title iff the session is Active.
C19_ViewShowsActiveIffActive ==
    /\ pc \in {"draw", "event"} =>
         (IsSome(get_active_issue) <=> IsSome(active_issue))
    /\ (JustHandled("copy") /\ pc = "draw") =>
         (IsSome(copied) <=> IsSome(active_issue))

----------------------------------------------------------------------------
(* Enter with no row highlighted *)

\* C20: Enter with no row highlighted, on an active session, deactivates it
\* first: one worklog is sent iff a minute or more had elapsed, the session is
\* Idle in memory and in the state file afterwards, and no issue is activated.
C20_EnterWithoutRowDeactivates ==
    (JustHandled("activate") /\ selected = None /\ WasActive) =>
        /\ Len(posts) = pre.nposts + (IF ElapsedPre >= OneMinute THEN 1 ELSE 0)
        /\ Idle
        /\ DiskIdle

====
